---- MODULE Spec2Model ----
(***************************************************************************)
(* Model of the vangogh-ai X (Twitter) agent.                              *)
(*                                                                         *)
(*   src/platforms/x/index.ts : the mention-reconciliation loop            *)
(*       (main, initializeBot, runBot, getMentions, handleMention,         *)
(*        saveLastMentionId, tweetGitHubCommits)                           *)
(*   src/platforms/x/auth.ts  : the OAuth1 authorization exchange          *)
(*       (GET / and GET /callback over the module variable requestTokens)  *)
(*                                                                         *)
(* Strings are modelled by naturals: a tweet id is a number in 1..MaxId    *)
(* (the platform's total order on ids), and 0 is the empty string "".      *)
(* An Option / nullable value is a sequence of length 0 or 1.              *)
(***************************************************************************)
EXTENDS Integers, Sequences, FiniteSets, TLC

\* ------------------------------------------------------------------ bounds
MaxId == 3          \* mention ids visible on the platform are 1..MaxId
MaxPage == 2        \* mentions carried by one page of the mention timeline
MaxCommits == 1     \* commits carried by one activity-feed event
MaxEvents == 2      \* events carried by one activity-feed response
MaxToken == 2       \* request tokens the platform may issue are 1..MaxToken

VARIABLES
  \* ---- index.ts: process and durable state
  pc,             \* position of the process (see PcValues)
  file,           \* last_mention_id.txt: <<>> when absent, else <<content>>
  lastMentionId,  \* bot.lastMentionId : O.Option<string>
  profiles,       \* const profiles of the running iteration
  mentions,       \* const mentions of the running iteration
  idx,            \* position of the for-of loop in mentions (1-based)
  handleResult,   \* Either tag returned by the last handleMention call
  commits,        \* const commits inside tweetGitHubCommits
  cidx,           \* position of the for-of loop in commits (1-based)
  \* ---- index.ts: observations of the running iteration
  startCursor,    \* bot.lastMentionId when the iteration started
  firstIter,      \* TRUE until the first iteration of this process has slept
  sinceSent,      \* since_id argument of the iteration's fetch (<<>> = none yet)
  fetched,        \* "none" | "right" | "left": outcome of the iteration's fetch
  handled,        \* ids passed to handleMention in this iteration, in order
  succeeded,      \* ids of this iteration whose handleMention returned Right
  posted,         \* commits for which an announcement post was attempted
  replied,        \* ids of this iteration whose reply the platform accepted
  failedStep,     \* "none" | "completion" | "post": what threw in handleMention
  saveResult,     \* Either tag returned by the last saveLastMentionId call
  feedResult,     \* "none" | "ok" | "error": the iteration's activity-feed fetch
  pushTotal,      \* commits carried by the push events of the fetched feed
  log,            \* logger messages of the running iteration (or of startup)
  exitCode,       \* 0 while no process.exit was called, else its argument
  announcedBefore,\* the watched commit was announced in an earlier iteration
  announcedNow,   \* the watched commit was announced in this iteration
  \* ---- auth.ts
  requestTokens,  \* let requestTokens: OAuthTokens | null
  authOp,         \* "none" | "start" | "callback": last request served
  authError,      \* "none" | "StartError" | "InvalidCallback" | "TokenExchangeError"
  status,         \* HTTP status of the last response
  cbQuery,        \* req.query of the last callback
  cbSession,      \* requestTokens when the last callback arrived
  exchange,       \* arguments of the login() call of the last callback, or <<>>
  rejected,       \* TRUE from a rejected exchange until the next session is stored
  lastIssued,     \* session stored by the most recent successful GET /
  prevIssued      \* session stored by the successful GET / before that one

botVars == <<pc, file, lastMentionId, profiles, mentions, idx, handleResult,
             commits, cidx, startCursor, firstIter, sinceSent,
             fetched, handled, succeeded, posted, replied, failedStep,
             saveResult, feedResult, pushTotal, log, exitCode,
             announcedBefore, announcedNow>>
authVars == <<requestTokens, authOp, authError, status, cbQuery, cbSession,
              exchange, rejected, lastIssued, prevIssued>>
vars == <<botVars, authVars>>

\* ------------------------------------------------------------ value spaces
Ids == 1..MaxId
Undefined == -1                       \* undefined / null of a string-typed value
None == <<>>                          \* O.none, null
Some(x) == <<x>>                      \* O.some(x), a present value

\* content of last_mention_id.txt: text is what trim() leaves, nl says whether
\* the file carries surrounding whitespace (a trailing newline)
FileContents == [text : 0..MaxId, nl : BOOLEAN]

\* ---------------------------------------------------------- pure functions
\* String.prototype.trim as used by main on the file content
Trim(content) == content.text

\* O.fromNullable
FromNullable(x) == IF x = Undefined THEN None ELSE Some(x)

\* O.toNullable
ToNullable(o) == IF o = None THEN Undefined ELSE o[1]

NoDup(s) == \A i, j \in 1..Len(s) : i # j => s[i] # s[j]

RECURSIVE SeqsOver(_, _)
\* all duplicate-free sequences over the set S of length at most n
SeqsOver(S, n) ==
  IF n = 0 THEN {<<>>}
  ELSE LET shorter == SeqsOver(S, n - 1)
           longest == {t \in shorter : Len(t) = n - 1}
       IN shorter \cup {e \in {Append(t, x) : t \in longest, x \in S} : NoDup(e)}

Range(s) == {s[i] : i \in 1..Len(s)}

\* mentions the platform may return for a since_id argument: those strictly
\* newer than it, all of them when the argument is null/undefined
Visible(sinceId) == IF sinceId = Undefined THEN Ids ELSE {m \in Ids : m > sinceId}

\* a page of the mention timeline: any of the visible mentions, in any order
Pages(sinceId) == SeqsOver(Visible(sinceId), MaxPage)

\* one step of a for-of loop over a list of n elements that stands at i:
\* the next element if there is one, else the statement after the loop
AfterElement(i, n, inLoop, afterLoop) == IF i + 1 <= n THEN inLoop ELSE afterLoop

\* ------------------------------------------------------- activity feed
EventTypes == {"PushEvent", "WatchEvent"}
\* a push event carries a list of commits; an event of another type is given
\* one commit record too, so that the type filter is what keeps it out
Events == [type : {"PushEvent"}, ncommits : 0..MaxCommits]
            \cup [type : EventTypes \ {"PushEvent"}, ncommits : {1}]
Feeds == UNION {[1..n -> Events] : n \in 0..MaxEvents}

RECURSIVE FlattenFrom(_, _)
\* response.data.filter(type === 'PushEvent').flatMap(event.payload.commits.map(..))
\* from event e on; a commit is named <<event index, commit index>>
FlattenFrom(feed, e) ==
  IF e > Len(feed) THEN <<>>
  ELSE (IF feed[e].type = "PushEvent"
          THEN [k \in 1..feed[e].ncommits |-> <<e, k>>]
          ELSE <<>>) \o FlattenFrom(feed, e + 1)

Flatten(feed) == FlattenFrom(feed, 1)

\* ------------------------------------------------------------------- Init
LoopPcs == {"profiles", "fetch", "handle", "save", "commits", "announce", "sleep"}
PcValues == {"stopped", "exited"} \cup LoopPcs

BotInit ==
  /\ pc = "stopped"
  /\ file \in {None} \cup {Some(c) : c \in FileContents}
  /\ lastMentionId = None
  /\ profiles = <<>>
  /\ mentions = <<>>
  /\ idx = 1
  /\ handleResult = "none"
  /\ commits = <<>>
  /\ cidx = 1
  /\ startCursor = None
  /\ firstIter = TRUE
  /\ sinceSent = None
  /\ fetched = "none"
  /\ handled = <<>>
  /\ succeeded = {}
  /\ posted = <<>>
  /\ replied = {}
  /\ failedStep = "none"
  /\ saveResult = "none"
  /\ feedResult = "none"
  /\ pushTotal = 0
  /\ log = {}
  /\ exitCode = 0
  /\ announcedBefore = FALSE
  /\ announcedNow = FALSE

NoSession == None
NoQuery == [oauth_token |-> 0, oauth_verifier |-> 0]

AuthInit ==
  /\ requestTokens = NoSession
  /\ authOp = "none"
  /\ authError = "none"
  /\ status = 0
  /\ cbQuery = NoQuery
  /\ cbSession = NoSession
  /\ exchange = None
  /\ rejected = FALSE
  /\ lastIssued = NoSession
  /\ prevIssued = NoSession

Init == BotInit /\ AuthInit

\* --------------------------------------------------- index.ts: the process
\* the observations of an iteration, as they stand when an iteration starts
IterationStart(cursor) ==
  /\ profiles' = <<>>
  /\ mentions' = <<>>
  /\ idx' = 1
  /\ handleResult' = "none"
  /\ commits' = <<>>
  /\ cidx' = 1
  /\ startCursor' = cursor
  /\ sinceSent' = None
  /\ fetched' = "none"
  /\ handled' = <<>>
  /\ succeeded' = {}
  /\ posted' = <<>>
  /\ replied' = {}
  /\ failedStep' = "none"
  /\ saveResult' = "none"
  /\ feedResult' = "none"
  /\ pushTotal' = 0
  /\ announcedNow' = FALSE

\* let lastMentionId; try { lastMentionId = (await fs.readFile(..)).trim() }
\* catch {}: the trimmed content, undefined when there is no file to read
ReadCursor(f) == IF f # None THEN Trim(f[1]) ELSE Undefined

\* startup goes on although the identity lookup failed
StartupOkIgnoresIdentity(clientsOk, meOk) == clientsOk

\* main enters runBot only if createClients and initializeBot both return Right
StartupOk(clientsOk, meOk) == clientsOk /\ meOk

\* the logger.error of main for the Left it met first
StartupError(clientsOk, meOk) ==
  IF ~clientsOk THEN "Failed to create clients"
  ELSE IF ~meOk THEN "Failed to initialize bot"
  ELSE "none"

\* main: createClients, read last_mention_id.txt, initializeBot, enter runBot
main(clientsOk, meOk) ==
  /\ pc \in {"stopped", "exited"}
  /\ LET local == ReadCursor(file)
     IN IF StartupOk(clientsOk, meOk)
          THEN /\ pc' = "profiles"
               /\ lastMentionId' = FromNullable(local)
               /\ firstIter' = TRUE
               /\ IterationStart(FromNullable(local))
               /\ log' = {"Bot initialized"} \cup
                           ({StartupError(clientsOk, meOk)} \ {"none"})
               /\ exitCode' = 0
               /\ UNCHANGED <<file, announcedBefore>>
          ELSE /\ pc' = "exited"            \* process.exit(1)
               /\ exitCode' = 1
               /\ log' = {StartupError(clientsOk, meOk)}
               /\ UNCHANGED <<file, lastMentionId, profiles, mentions, idx,
                              handleResult, commits, cidx, startCursor,
                              firstIter, sinceSent, fetched, handled, succeeded,
                              posted, replied, failedStep, saveResult,
                              feedResult, pushTotal, announcedBefore,
                              announcedNow>>
  /\ UNCHANGED authVars

\* the process is terminated (signal, crash): memory is lost, the file stays
Terminate ==
  /\ pc \in LoopPcs
  /\ pc' = "stopped"
  /\ lastMentionId' = None
  /\ firstIter' = TRUE
  /\ IterationStart(None)
  /\ log' = {}
  /\ announcedBefore' = FALSE
  /\ UNCHANGED <<file, exitCode>>
  /\ UNCHANGED authVars

\* ------------------------------------------------- index.ts: runBot, a step
\* a failed list-members call is not caught and ends the process
AfterProfilesThrows(ok) == IF ok THEN "fetch" ELSE "exited"

\* fetchTwitterListProfiles catches its own error and returns []: runBot goes
\* on to the mention fetch either way
AfterProfiles(ok) == "fetch"

\* fetchTwitterListProfiles: the member list, [] when the call fails
fetchTwitterListProfiles(ok) ==
  /\ pc = "profiles"
  /\ profiles' = IF ok THEN <<"member">> ELSE <<>>
  /\ log' = IF ok THEN log ELSE log \cup {"Error fetching Twitter list profiles"}
  /\ pc' = AfterProfiles(ok)
  /\ UNCHANGED <<file, lastMentionId, mentions, idx, handleResult, commits, cidx,
                 startCursor, firstIter, sinceSent, fetched, handled, succeeded,
                 posted, replied, failedStep, saveResult, feedResult, pushTotal,
                 exitCode, announcedBefore, announcedNow>>
  /\ UNCHANGED authVars

\* a Left from getMentions ends the iteration at the sleep
AfterFetchLeftSleeps == "sleep"

\* if (E.isRight(mentionsResult)) {...} has no else: after a Left runBot goes
\* on with tweetGitHubCommits
AfterFetchLeft == "commits"

\* what runBot logs when getMentions returns Left: nothing, the Left is dropped
FetchLeftLog == {}

\* getMentions(bot)(O.toNullable(bot.lastMentionId)) and the isRight test;
\* page is the platform's answer to the since_id sent, one of Pages(since_id)
getMentions(ok, page) ==
  /\ pc = "fetch"
  /\ sinceSent' = Some(ToNullable(lastMentionId))
  /\ IF ok
       THEN /\ fetched' = "right"
            /\ mentions' = page
            /\ pc' = AfterElement(0, Len(page), "handle", "commits")
            /\ log' = log
       ELSE /\ fetched' = "left"
            /\ mentions' = <<>>
            /\ pc' = AfterFetchLeft
            /\ log' = log \cup FetchLeftLog
  /\ UNCHANGED <<file, lastMentionId, profiles, idx, handleResult, commits, cidx,
                 startCursor, firstIter, handled, succeeded, posted, replied,
                 failedStep, saveResult, feedResult, pushTotal, exitCode,
                 announcedBefore, announcedNow>>
  /\ UNCHANGED authVars

\* a throw of the reply post is not noticed
HandleOutcomeIgnoresPost(completionOk, postOk) ==
  IF completionOk THEN "Right" ELSE "OpenAIError"

\* the Either returned by handleMention: Right when the completion and the
\* reply post both succeed, Left(OpenAIError) when either throws
HandleOutcome(completionOk, postOk) ==
  IF completionOk /\ postOk THEN "Right" ELSE "OpenAIError"

\* the await of handleMention that threw: the completion comes first, the
\* reply post is only reached with a completion
FailedStep(completionOk, postOk) ==
  IF ~completionOk THEN "completion" ELSE IF ~postOk THEN "post" ELSE "none"

\* what handleMention and runBot log for a Left: nothing, the catch only wraps
\* the error and the loop only tests isRight
HandleLeftLog(step) == {}

\* a mention whose handleMention returned Left ends the loop altogether
AfterLeftBreaks(i, n) == "commits"

\* if (E.isRight(handleResult)) {...} has no else: after a Left the for-of loop
\* goes on with the next mention
AfterLeft(i, n) == AfterElement(i, n, "handle", "commits")

\* handleMention(bot)(mention, profiles) and the isRight test of the loop
handleMention(completionOk, postOk) ==
  /\ pc = "handle"
  /\ LET mention == mentions[idx]
         result == HandleOutcome(completionOk, postOk)
         step == FailedStep(completionOk, postOk)
     IN /\ handled' = Append(handled, mention)
        /\ handleResult' = result
        /\ failedStep' = step
        /\ replied' = IF step = "none" THEN replied \cup {mention} ELSE replied
        /\ IF result = "Right"
             THEN /\ succeeded' = succeeded \cup {mention}
                  /\ pc' = "save"
                  /\ idx' = idx
                  /\ log' = log
             ELSE /\ succeeded' = succeeded
                  /\ pc' = AfterLeft(idx, Len(mentions))
                  /\ idx' = idx + 1
                  /\ log' = log \cup HandleLeftLog(step)
  /\ saveResult' = "none"
  /\ UNCHANGED <<file, lastMentionId, profiles, mentions, commits, cidx,
                 startCursor, firstIter, sinceSent, fetched, posted, feedResult,
                 pushTotal, exitCode, announcedBefore, announcedNow>>
  /\ UNCHANGED authVars

\* fs.writeFile('last_mention_id.txt', mentionId): the file holds exactly the id
WriteFile(mentionId) == Some([text |-> mentionId, nl |-> FALSE])

\* bot.lastMentionId = O.some(mention.id) follows the await whatever Either
\* saveLastMentionId returned
CursorAfterSave(cursor, mentionId, writeOk) == Some(mentionId)

\* await saveLastMentionId(mention.id); bot.lastMentionId = O.some(mention.id)
saveLastMentionId(writeOk) ==
  /\ pc = "save"
  /\ LET mention == mentions[idx]
     IN /\ file' = IF writeOk THEN WriteFile(mention) ELSE file
        /\ lastMentionId' = CursorAfterSave(lastMentionId, mention, writeOk)
  /\ saveResult' = IF writeOk THEN "Right" ELSE "FileSystemError"
  /\ pc' = AfterElement(idx, Len(mentions), "handle", "commits")
  /\ idx' = idx + 1
  /\ UNCHANGED <<profiles, mentions, handleResult, commits, cidx, startCursor,
                 firstIter, sinceSent, fetched, handled, succeeded, posted,
                 replied, failedStep, feedResult, pushTotal, log, exitCode,
                 announcedBefore, announcedNow>>
  /\ UNCHANGED authVars

\* the mention loop is behind: its locals are dead and the observations of the
\* mention phase are closed; the outcome of the fetch stays until the sleep
MentionPhaseOver ==
  /\ mentions' = <<>>
  /\ idx' = 1
  /\ handleResult' = "none"
  /\ startCursor' = lastMentionId
  /\ sinceSent' = None
  /\ handled' = <<>>
  /\ succeeded' = {}
  /\ replied' = {}
  /\ failedStep' = "none"
  /\ saveResult' = "none"

RECURSIVE PushCommitCount(_)
\* the commits of the push-type events of an activity-feed response, counted
PushCommitCount(feed) ==
  IF feed = <<>> THEN 0
  ELSE (IF Head(feed).type = "PushEvent" THEN Head(feed).ncommits ELSE 0)
         + PushCommitCount(Tail(feed))

\* tweetGitHubCommits: const commits = await fetchGitHubCommits()
fetchGitHubCommits(ok, feed) ==
  /\ pc = "commits"
  /\ commits' = IF ok THEN Flatten(feed) ELSE <<>>
  /\ feedResult' = IF ok THEN "ok" ELSE "error"
  /\ pushTotal' = IF ok THEN PushCommitCount(feed) ELSE 0
  /\ log' = IF ok THEN log ELSE log \cup {"Error fetching GitHub commits"}
  /\ cidx' = 1
  /\ pc' = AfterElement(0, Len(commits'), "announce", "sleep")
  /\ MentionPhaseOver
  /\ UNCHANGED <<file, lastMentionId, profiles, firstIter, fetched, posted,
                 exitCode, announcedBefore, announcedNow>>
  /\ UNCHANGED authVars

\* the commit whose announcements are followed from one iteration to the next
WatchedCommit == <<1, 1>>

\* commits already announced by this process are left out
ShouldTweetOnce(commit, before) == ~(commit = WatchedCommit /\ before)

\* for (const commit of commits): every commit of the list is posted, the loop
\* consults no record of earlier announcements
ShouldTweet(commit, before) == TRUE

\* a failed announcement post ends the loop over the commits
AfterTweetErrorBreaks(i, n) == "sleep"

\* catch (error) { logger.error('Error tweeting commit:', error) } inside the
\* loop body: the for-of loop goes on with the next commit
AfterTweetError(i, n) == AfterElement(i, n, "announce", "sleep")

\* tweetGitHubCommits: the body of the for-of loop, one commit
tweetCommit(ok) ==
  /\ pc = "announce"
  /\ LET commit == commits[cidx]
     IN IF ShouldTweet(commit, announcedBefore)
          THEN /\ posted' = Append(posted, commit)
               /\ log' = log \cup {IF ok THEN "Tweeted commit"
                                         ELSE "Error tweeting commit"}
               /\ announcedNow' = (announcedNow \/ (ok /\ commit = WatchedCommit))
               /\ pc' = IF ok THEN AfterElement(cidx, Len(commits), "announce", "sleep")
                              ELSE AfterTweetError(cidx, Len(commits))
          ELSE /\ UNCHANGED <<posted, log, announcedNow>>
               /\ pc' = AfterElement(cidx, Len(commits), "announce", "sleep")
  /\ cidx' = cidx + 1
  /\ UNCHANGED <<file, lastMentionId, profiles, mentions, idx, handleResult,
                 commits, startCursor, firstIter, sinceSent, fetched, handled,
                 succeeded, replied, failedStep, saveResult, feedResult,
                 pushTotal, exitCode, announcedBefore>>
  /\ UNCHANGED authVars

\* await delay(checkInterval * 1000), then the next turn of while (true)
delay ==
  /\ pc = "sleep"
  /\ pc' = "profiles"
  /\ firstIter' = FALSE
  /\ IterationStart(lastMentionId)
  /\ log' = {}
  /\ announcedBefore' = (announcedBefore \/ announcedNow)
  /\ UNCHANGED <<file, lastMentionId, exitCode>>
  /\ UNCHANGED authVars

BotStep ==
  \/ \E ok \in BOOLEAN : fetchTwitterListProfiles(ok)
  \/ pc = "fetch" /\ \E page \in Pages(ToNullable(lastMentionId)) :
                        getMentions(TRUE, page)
  \/ getMentions(FALSE, <<>>)
  \/ \E completionOk, postOk \in BOOLEAN : handleMention(completionOk, postOk)
  \/ \E writeOk \in BOOLEAN : saveLastMentionId(writeOk)
  \/ pc = "commits" /\ \E feed \in Feeds : fetchGitHubCommits(TRUE, feed)
  \/ fetchGitHubCommits(FALSE, <<>>)
  \/ \E ok \in BOOLEAN : tweetCommit(ok)
  \/ delay

Next ==
  \/ \E clientsOk, meOk \in BOOLEAN : main(clientsOk, meOk)
  \/ BotStep
  \/ Terminate

Spec == Init /\ [][Next]_vars

\* ------------------------------------------------------------------ auth.ts
Tokens == 1..MaxToken                 \* oauth_token strings the platform issues
Secrets == 1..MaxToken                \* oauth_token_secret strings it issues
Verifiers == 1..MaxToken              \* oauth_verifier strings it hands out
Sessions == [oauth_token : Tokens, oauth_token_secret : Secrets]

\* !x of a query-string value: TRUE for a missing parameter and for ""
Falsy(x) == x = 0

\* the guard of the callback route:
\* !oauth_token || !oauth_verifier || !requestTokens
InvalidCallbackParameters(query, session) ==
  Falsy(query.oauth_token) \/ Falsy(query.oauth_verifier) \/ session = NoSession

\* the temporary client is built from the token the callback request carries
TempClientLoginFromQuery(query, session) ==
  [accessToken |-> query.oauth_token,
   accessSecret |-> session[1].oauth_token_secret,
   verifier |-> query.oauth_verifier]

\* new TwitterApi({accessToken: requestTokens.oauth_token, accessSecret: ...})
\* followed by tempClient.login(oauth_verifier): what the exchange is called with
TempClientLogin(query, session) ==
  [accessToken |-> session[1].oauth_token,
   accessSecret |-> session[1].oauth_token_secret,
   verifier |-> query.oauth_verifier]

\* requestTokens after the callback route has run
SessionAfterCallback(session, exchanged, loginOk) == session

\* app.get('/'): generateAuthLink, store the session, open the browser
StartAuthorization(linkOk, token, secret) ==
  /\ authOp' = "start"
  /\ IF linkOk
       THEN /\ requestTokens' = Some([oauth_token |-> token,
                                      oauth_token_secret |-> secret])
            /\ status' = 200
            /\ authError' = "none"
            /\ rejected' = FALSE
            /\ lastIssued' = Some([oauth_token |-> token,
                                   oauth_token_secret |-> secret])
            /\ prevIssued' = lastIssued
       ELSE /\ requestTokens' = requestTokens
            /\ status' = 500
            /\ authError' = "StartError"
            /\ rejected' = rejected
            /\ UNCHANGED <<lastIssued, prevIssued>>
  /\ cbQuery' = NoQuery
  /\ cbSession' = NoSession
  /\ exchange' = None
  /\ UNCHANGED botVars

\* app.get('/callback'): check the parameters, exchange the verifier
HandleCallback(token, verifier, loginOk) ==
  LET query == [oauth_token |-> token, oauth_verifier |-> verifier]
  IN /\ authOp' = "callback"
     /\ cbQuery' = query
     /\ cbSession' = requestTokens
     /\ IF InvalidCallbackParameters(query, requestTokens)
          THEN /\ exchange' = None
               /\ authError' = "InvalidCallback"
               /\ status' = 500
               /\ rejected' = rejected
               /\ requestTokens' = SessionAfterCallback(requestTokens, FALSE, FALSE)
          ELSE /\ exchange' = Some(TempClientLogin(query, requestTokens))
               /\ authError' = IF loginOk THEN "none" ELSE "TokenExchangeError"
               /\ status' = IF loginOk THEN 200 ELSE 500
               /\ rejected' = (rejected \/ ~loginOk)
               /\ requestTokens' = SessionAfterCallback(requestTokens, TRUE, loginOk)
     /\ UNCHANGED <<lastIssued, prevIssued>>
     /\ UNCHANGED botVars

AuthNext ==
  \/ \E linkOk \in BOOLEAN : \E token \in Tokens : \E secret \in Secrets :
       StartAuthorization(linkOk, token, secret)
  \/ \E token \in {0} \cup Tokens : \E verifier \in {0} \cup Verifiers :
       \E loginOk \in BOOLEAN : HandleCallback(token, verifier, loginOk)

\* the exchange is a process of its own: the loop is not running beside it
AuthSpecInit == AuthInit /\ BotInit /\ file = None

AuthSpec == AuthSpecInit /\ [][AuthNext]_vars

\* the loop takes its steps as long as the process is not terminated
LiveSpec == Init /\ [][Next]_vars /\ WF_vars(BotStep)

\* =================================================================== claims
\* the mention loop of the running iteration is over
MentionsDone == pc = "commits"

Max(S) == CHOOSE x \in S : \A y \in S : y <= x

\* the id a cursor store holds, -1 for an absent file
FileRank(f) == IF f = None THEN -1 ELSE f[1].text

\* C1: after one iteration the in-memory cursor is the maximum id among the
\* mentions of the batch whose reply was posted, and the starting cursor when
\* no mention succeeded or the fetch failed.
C1_CursorIsMaxSucceeded ==
  MentionsDone =>
    lastMentionId = IF succeeded = {} THEN startCursor ELSE Some(Max(succeeded))

\* C2: every write to the durable cursor store stores an id greater than or
\* equal to the value it replaces.
C2_PersistedCursorMonotone == [][FileRank(file') >= FileRank(file)]_vars

\* C3: within one iteration mentions are handled in strictly ascending id
\* order.
C3_HandledAscending ==
  \A i, j \in 1..Len(handled) : i < j => handled[i] < handled[j]

\* C4: every mention of a fetched batch is handled exactly once in the
\* iteration, whatever the outcomes of the mentions before it: the handled
\* mentions are always the batch up to the loop position, and the whole batch
\* once the loop is over.
C4_EveryMentionHandledOnce ==
  /\ handled = SubSeq(mentions, 1, Len(handled))
  /\ pc = "handle" => Len(handled) = idx - 1
  /\ pc = "save" => Len(handled) = idx
  /\ MentionsDone => handled = mentions

\* C4 witness: a batch of two whose first mention failed and whose second was
\* handled all the same.
C4_Witness ==
  /\ pc = "commits"
  /\ Len(mentions) = 2
  /\ handled = mentions
  /\ mentions[1] \notin succeeded

\* C5: the cursor never advances past a failed mention: when the mention loop
\* is over, every mention of the batch that failed is among the mentions a
\* fetch bounded by the cursor returns.
C5_FailedMentionStillFetched ==
  MentionsDone =>
    \A x \in Range(handled) \ succeeded : x \in Visible(ToNullable(lastMentionId))

\* C6: a callback whose oauth_token differs from the active session's token,
\* verifier present, fails with InvalidCallback, calls no exchange and leaves
\* the session unchanged.
C6_MismatchedTokenRejected ==
  (/\ authOp = "callback"
   /\ cbSession # NoSession
   /\ ~Falsy(cbQuery.oauth_verifier)
   /\ cbQuery.oauth_token # cbSession[1].oauth_token)
  => (authError = "InvalidCallback" /\ exchange = None /\ requestTokens = cbSession)

\* C7: the session is single-use: after a callback whose exchange succeeded
\* there is no active session, and a second callback with the same token fails
\* with InvalidCallback and calls no exchange.
C7_SessionSingleUse ==
  [][/\ (authOp' = "callback" /\ authError' = "none") => requestTokens' = NoSession
     /\ (/\ authOp = "callback" /\ authError = "none"
         /\ authOp' = "callback" /\ cbQuery'.oauth_token = cbQuery.oauth_token)
        => (authError' = "InvalidCallback" /\ exchange' = None)]_vars

\* C8: a rejected exchange discards the session too, and no later callback
\* attempts an exchange until a new StartAuthorization stores a session.
C8_RejectedExchangeDiscardsSession ==
  [][/\ (authOp' = "callback" /\ authError' = "TokenExchangeError")
          => requestTokens' = NoSession
     /\ (rejected /\ authOp' = "callback") => exchange' = None]_vars

\* the cursor file holds no id: it is absent, empty or whitespace only
NoPersistedCursor(f) == f = None \/ Trim(f[1]) = 0

\* C9: when the persisted cursor is absent or empty at startup the first
\* fetch carries no since_id; in every other case the since_id of a fetch is
\* the in-memory cursor. (Until the first mention is handled the file is the
\* one the process found at startup.)
C9_FirstFetchUnbounded ==
  sinceSent # None =>
    /\ sinceSent[1] = ToNullable(startCursor)
    /\ (firstIter /\ handled = <<>> /\ NoPersistedCursor(file))
         => sinceSent[1] = Undefined

\* C10: once runBot has started the loop is left only by terminating the
\* process, and as long as the process runs the loop comes to the sleep again
\* and again and starts another iteration again and again.
C10_LoopNeverExits ==
  /\ [][(pc \in LoopPcs) => (pc' \in LoopPcs \/ pc' = "stopped")]_vars
  /\ []<>(pc = "sleep" \/ pc \notin LoopPcs)
  /\ []<>(pc = "profiles" \/ pc \notin LoopPcs)

\* C10 witness: an iteration after the first reaches the sleep although the
\* profile fetch and the mention fetch both failed.
C10_Witness ==
  /\ pc = "sleep"
  /\ ~firstIter
  /\ fetched = "left"
  /\ profiles = <<>>

\* feed order of two commits: by event, then by position in the event
FeedBefore(c, d) == c[1] < d[1] \/ (c[1] = d[1] /\ c[2] < d[2])

\* C11: for a feed whose push events carry n commits, one run of the secondary
\* task attempts exactly n announcement posts, one per commit in feed order,
\* whatever posts fail: the attempts are always the commits up to the loop
\* position, in feed order, and all n of them once the task is over.
C11_OnePostPerCommit ==
  /\ posted = SubSeq(commits, 1, Len(posted))
  /\ \A i, j \in 1..Len(posted) : i < j => FeedBefore(posted[i], posted[j])
  /\ pc = "announce" => Len(posted) = cidx - 1
  /\ (pc = "sleep" /\ feedResult = "ok") => Len(posted) = pushTotal
  /\ (pc = "sleep" /\ feedResult = "error") => posted = <<>>

\* C11 witness: a feed of two commits whose two posts both failed, the second
\* attempted after the failure of the first, and the iteration at its sleep.
C11_Witness ==
  /\ pc = "sleep"
  /\ pushTotal = 2
  /\ Len(posted) = 2
  /\ "Error tweeting commit" \in log
  /\ "Tweeted commit" \notin log

\* the since_id of the first fetch of a process that starts on the cursor file f
RestartBound(f) == ToNullable(FromNullable(ReadCursor(f)))

\* C12: if the process crashes after a mention's reply was posted and before
\* the cursor rewrite for it, the restarted process fetches that mention again:
\* whenever the process stands between the post and the rewrite, the cursor
\* file, which is what a restart loads, bounds a fetch that returns the mention.
C12_CrashBeforeRewriteReplays ==
  pc = "save" => mentions[idx] \in Visible(RestartBound(file))

\* C13: a mention whose completion or reply post failed changes neither cursor
\* and never reaches the cursor rewrite; the cursor file is only ever written
\* by the rewrite step, with the id of a mention whose completion and reply
\* post both succeeded.
C13_CursorOnlyFollowsCompletedMention ==
  [][/\ failedStep' # "none"
          => (pc' # "save" /\ file' = file /\ lastMentionId' = lastMentionId)
     /\ file' # file
          => (/\ pc = "save"
              /\ file' = WriteFile(mentions[idx])
              /\ mentions[idx] \in replied)
     /\ (lastMentionId' # lastMentionId /\ pc \in LoopPcs /\ pc' \in LoopPcs)
          => (/\ pc = "save"
              /\ lastMentionId' = Some(mentions[idx])
              /\ mentions[idx] \in replied)]_vars

\* C13 witness: the first mention of a batch was completed and persisted, the
\* reply post of the second failed, and both cursors still hold the first.
C13_Witness ==
  /\ failedStep = "post"
  /\ Len(handled) = 2
  /\ handled[1] \in replied
  /\ file = WriteFile(handled[1])
  /\ lastMentionId = Some(handled[1])

\* C14: when the mention fetch fails the iteration handles no mention, leaves
\* both cursors as they were, goes on to the commit task and does not reach
\* the sleep before the activity feed was fetched.
C14_FetchFailureSkipsToCommits ==
  [][fetched' = "left"
       => (/\ handled' = <<>>
           /\ file' = file
           /\ lastMentionId' = lastMentionId
           /\ lastMentionId' = startCursor'
           /\ pc' \in {"commits", "announce", "sleep"}
           /\ pc' = "sleep" => feedResult' # "none")]_vars

\* C14 witness: an iteration whose mention fetch failed is at its sleep with
\* a commit of the feed announced.
C14_Witness ==
  /\ pc = "sleep"
  /\ fetched = "left"
  /\ feedResult = "ok"
  /\ Len(posted) >= 1

\* C15: when the cursor write fails for a replied mention the in-memory cursor
\* advances to its id all the same, the file keeps its value, and a restart
\* from that file fetches the mention again.
C15_WriteFailureKeepsFileReplays ==
  [][(pc = "save" /\ saveResult' = "FileSystemError")
       => (/\ lastMentionId' = Some(mentions[idx])
           /\ file' = file
           /\ mentions[idx] \in Visible(RestartBound(file')))]_vars

StartupErrors == {"Failed to create clients", "Failed to initialize bot"}

\* C16: a failed client construction or identity lookup ends the process with
\* exit code 1 before any fetch or post; a process that is in the loop had no
\* startup failure, and a missing cursor file starts it with an empty cursor.
C16_StartupFailuresFatal ==
  /\ pc = "exited"
       => (/\ exitCode = 1
           /\ log \cap StartupErrors # {}
           /\ sinceSent = None /\ fetched = "none" /\ feedResult = "none"
           /\ handled = <<>> /\ posted = <<>>)
  /\ pc \in LoopPcs => (exitCode = 0 /\ log \cap StartupErrors = {})
  /\ (pc = "profiles" /\ firstIter /\ file = None) => lastMentionId = None

\* C16 witness: with no cursor file, the identity lookup failed and the
\* process has exited with code 1.
C16_Witness ==
  /\ pc = "exited"
  /\ exitCode = 1
  /\ file = None
  /\ "Failed to initialize bot" \in log

\* the step of the loop a logger message of the source names
LogStep(m) ==
  CASE m = "Error fetching Twitter list profiles" -> "profiles"
    [] m = "Error fetching GitHub commits" -> "feed"
    [] m = "Error tweeting commit" -> "announce"
    [] m = "Tweeted commit" -> "announce"
    [] OTHER -> "startup"

\* C17: a failed mention fetch, a failed completion and a failed reply post
\* each leave a log entry that names the failing step.
C17_LoopFailuresLogged ==
  /\ fetched = "left" => \E m \in log : LogStep(m) = "mentions"
  /\ failedStep = "completion" => \E m \in log : LogStep(m) = "completion"
  /\ failedStep = "post" => \E m \in log : LogStep(m) = "post"

\* C18: a failed reply post is reported as a platform error, and a completion
\* error is reported only for a failed completion call.
C18_ErrorKindNamesCollaborator ==
  /\ failedStep = "post" => handleResult = "TwitterAPIError"
  /\ handleResult = "OpenAIError" => failedStep = "completion"

\* C19: whenever HandleCallback performs a token exchange, it is called with
\* the token and secret of the session written by the most recent successful
\* StartAuthorization, never with the oauth_token of the callback request; a
\* callback for the attempt before the last one is therefore exchanged with
\* the last attempt's token and secret.
C19_ExchangeUsesStoredSession ==
  exchange # None =>
    /\ lastIssued # NoSession
    /\ cbSession = lastIssued
    /\ requestTokens = lastIssued
    /\ exchange[1].accessToken = lastIssued[1].oauth_token
    /\ exchange[1].accessSecret = lastIssued[1].oauth_token_secret
    /\ exchange[1].verifier = cbQuery.oauth_verifier

\* two sessions were stored, the callback carries the first one's token, and
\* the exchange was made with the second one's token and secret
C19_Witness ==
  /\ exchange # None
  /\ prevIssued # NoSession
  /\ cbQuery.oauth_token = prevIssued[1].oauth_token
  /\ prevIssued[1].oauth_token # lastIssued[1].oauth_token
  /\ prevIssued[1].oauth_token_secret # lastIssued[1].oauth_token_secret
  /\ exchange[1].accessToken = lastIssued[1].oauth_token
  /\ exchange[1].accessSecret = lastIssued[1].oauth_token_secret

\* C20: the secondary task keeps no record of announced commits: when the
\* task is over every commit of the fetched feed was attempted, the watched
\* commit too when an earlier iteration already announced it.
C20_CommitsReannounced ==
  /\ (pc = "sleep" /\ feedResult = "ok") => Range(posted) = Range(commits)
  /\ (pc = "sleep" /\ announcedBefore /\ WatchedCommit \in Range(commits))
       => WatchedCommit \in Range(posted)

\* C20 witness: the watched commit, announced in an earlier iteration, was
\* announced again in this one.
C20_Witness ==
  /\ pc = "sleep"
  /\ announcedBefore
  /\ announcedNow
  /\ WatchedCommit \in Range(posted)
====
